---- MODULE Spec2Model ----
(***************************************************************************)
(* dnsmasqmgr: the lease manager (pkg/server), its two binding stores      *)
(* (etchosts, dhcphosts), the address range allocator (iprange) and the    *)
(* persistence loop, as state machines.                                    *)
(*                                                                         *)
(* Addresses all lie in 10.0.0.0/24.  A net.IP value is modelled by its    *)
(* last octet: the 16-byte forms of two such addresses share their first   *)
(* 15 bytes, so bytes.Compare, net.IP.Equal and the big.Int differences    *)
(* the code takes depend on the last octet only.  A net.HardwareAddr of    *)
(* the form aa:bb:cc:dd:ee:0k is modelled by k.  The TEXT of an address    *)
(* is a string, and parsing and formatting are modelled as such.           *)
(***************************************************************************)
EXTENDS Integers, Sequences, FiniteSets, TLC

VARIABLES
    ipAlloc,      \* dmm.ipAlloc: [reserved : set of offsets, remaining : Int]
    nameMap,      \* dmm.nameMap.hosts: map hostname -> Host
    addrMap,      \* dmm.addrMap.bindings: map MAC text -> Binding
    lock,         \* dmm.lock: "" when free, else the holder
    call,         \* per caller: the RequestAddress call in progress or last returned
    lk,           \* the lookup client: the LookupAddress call in progress or last returned
    loopPc,       \* storeLoop: "recv" | "store" | "returned"
    closePc,      \* Close(): "idle" | "send" | "wait"
    journal,      \* lines appended to the journal through dmm.changes
    hostsFile,    \* content of dmm.hostsPath, a set of rendered lines
    leasesFile,   \* content of dmm.leasesPath, a set of rendered lines
    hist,         \* history: the completed RequestAddress calls of a run of fresh requests
    lastAlloc,    \* allocator history: the last call made on the allocator, its
                  \* argument or result, and the allocator before the call
    outstanding,  \* allocator history: addresses Allocate returned, not released since
    allocRun,     \* allocator history: number of calls so far if all were Allocate, else -1
    fileOp,       \* the last call made on the stores as libraries: its input and its result
    readOnly      \* dmm.readOnly

vars == <<ipAlloc, nameMap, addrMap, lock, call, lk, loopPc, closePc, journal,
          hostsFile, leasesFile, hist, lastAlloc, outstanding, allocRun, fileOp,
          readOnly>>

mgrVars == <<nameMap, addrMap, lock, call, lk, loopPc, closePc, journal,
             hostsFile, leasesFile, hist, readOnly>>

allocHist == <<lastAlloc, outstanding, allocRun>>

(***************************************************************************)
(* Bounds of the model.                                                    *)
(***************************************************************************)
\* number of addresses in the configured range (iprangeStr)
RangeSize == 2
\* last octet of the first address of the configured range
RangeStart == 2
\* the most lines a text handed to a parser has
MaxLines == 3

RangeEnd == RangeStart + RangeSize - 1
\* the octets an address can take in the model: the range, what lies below it, and
\* one address above it
Octets == 0..(RangeEnd + 1)
Offsets == 0..(RangeSize - 1)

\* the nil net.IP
NilIP == -1

(***************************************************************************)
(* Address range allocator (iprange).                                      *)
(***************************************************************************)
\* big.Int.SetBytes of a net.IP: nil has no bytes and reads as 0
SetBytes(ip) == IF ip = NilIP THEN 0 ELSE ip

\* IPRange.Contains: bytes.Compare against Start and End; nil compares below Start
Contains(ip) ==
    IF ip = NilIP \/ ip < RangeStart THEN FALSE ELSE ip <= RangeEnd

\* bigIntToIP: rebuilds the 16 bytes of an IPv4-in-IPv6 address from its low 4 bytes
bigIntToIP(newBig) == newBig % 256

NewAllocator == [reserved |-> {}, remaining |-> RangeSize]

RECURSIVE walkUp(_, _)
walkUp(reserved, i) ==
    IF i >= RangeSize THEN -1
    ELSE IF i \notin reserved THEN i ELSE walkUp(reserved, i + 1)

RECURSIVE walkDown(_, _)
walkDown(reserved, i) ==
    IF i < 0 THEN -1
    ELSE IF i \notin reserved THEN i ELSE walkDown(reserved, i - 1)

\* faulty variant: the scan that walks up only
findNextUpOnly(reserved, idx) == walkUp(reserved, idx)

\* faulty variant: the scan that does not look at the reserved set
findNextBlind(reserved, idx) == idx

\* findNextAvailbleIndex: walk up from idx, then down from idx - 1
findNextAvailbleIndex(reserved, idx) ==
    LET up == walkUp(reserved, idx)
    IN  IF up # -1 THEN up ELSE walkDown(reserved, idx - 1)

\* Allocate, with rnd the value rand.Int63n(a.size) returns
Allocate(a, rnd) ==
    IF a.remaining <= 0 THEN [a |-> a, ip |-> NilIP]
    ELSE LET idx == findNextAvailbleIndex(a.reserved, rnd)
         IN  IF idx = -1
             THEN [a |-> [a EXCEPT !.remaining = 0], ip |-> NilIP]
             ELSE [a  |-> [reserved |-> a.reserved \cup {idx},
                           remaining |-> a.remaining - 1],
                   ip |-> bigIntToIP(RangeStart + idx)]

\* faulty variant: Reserve without the range check
ReserveUnchecked(a, ip) ==
    LET idx == SetBytes(ip) - RangeStart
    IN  IF idx \notin a.reserved
        THEN [reserved |-> a.reserved \cup {idx}, remaining |-> a.remaining - 1]
        ELSE a

Reserve(a, ip) ==
    IF ~Contains(ip) THEN a
    ELSE LET idx == SetBytes(ip) - RangeStart
         IN  IF idx \notin a.reserved
             THEN [reserved |-> a.reserved \cup {idx}, remaining |-> a.remaining - 1]
             ELSE a

\* faulty variant: a Release that forgets the count
ReleaseKeepCount(a, ip) ==
    LET idx == SetBytes(ip) - RangeStart
    IN  IF idx \in a.reserved
        THEN [reserved |-> a.reserved \ {idx}, remaining |-> a.remaining]
        ELSE a

Release(a, ip) ==
    LET idx == SetBytes(ip) - RangeStart
    IN  IF idx \in a.reserved
        THEN [reserved |-> a.reserved \ {idx}, remaining |-> a.remaining + 1]
        ELSE a

\* faulty variant: a Subtract that stops before the End of the other range
RECURSIVE SubtractOpenEnd(_, _, _)
SubtractOpenEnd(a, curBig, endBig) ==
    IF curBig >= endBig THEN a
    ELSE LET ip == bigIntToIP(curBig)
         IN  SubtractOpenEnd(IF Contains(ip) THEN Reserve(a, ip) ELSE a, curBig + 1, endBig)

\* Subtract: for curBig from Start to End of the other range, Reserve what Contains accepts
RECURSIVE Subtract(_, _, _)
Subtract(a, curBig, endBig) ==
    IF curBig > endBig THEN a
    ELSE LET ip == bigIntToIP(curBig)
         IN  Subtract(IF Contains(ip) THEN Reserve(a, ip) ELSE a, curBig + 1, endBig)

(***************************************************************************)
(* Text of hostnames, hardware addresses and IP addresses.                 *)
(***************************************************************************)
\* as many hostnames and hardware addresses as the range has addresses
HostIds == 1..RangeSize
MacIds == 1..RangeSize

HostText == [i \in HostIds |-> "host" \o ToString(i)]
\* the form net.HardwareAddr.String prints, and the upper-case form ParseMAC also accepts
MacText == [k \in MacIds |-> "aa:bb:cc:dd:ee:0" \o ToString(k)]
MacUpper == [k \in MacIds |-> "AA:BB:CC:DD:EE:0" \o ToString(k)]
\* the form net.IP.String prints, and the IPv4-in-IPv6 form ParseIP also accepts
IPText == [n \in Octets |-> "10.0.0." \o ToString(n)]
IPMapped == [n \in Octets |-> "::ffff:10.0.0." \o ToString(n)]

\* the nil net.HardwareAddr
NilHW == 0

\* net.ParseIP: nil when the text is no address
ParseIP(s) ==
    IF \E n \in Octets : s = IPText[n] \/ s = IPMapped[n]
    THEN CHOOSE n \in Octets : s = IPText[n] \/ s = IPMapped[n]
    ELSE NilIP

\* net.IP.String
IPString(ip) == IF ip = NilIP THEN "<nil>" ELSE IPText[ip]

\* net.ParseMAC: (hw, err)
ParseMAC(s) ==
    IF \E k \in MacIds : s = MacText[k] \/ s = MacUpper[k]
    THEN [HW |-> CHOOSE k \in MacIds : s = MacText[k] \/ s = MacUpper[k], err |-> "nil"]
    ELSE [HW |-> NilHW, err |-> "net.AddrError"]

\* net.HardwareAddr.String
HWString(hw) == IF hw = NilHW THEN "" ELSE MacText[hw]

\* m with key k set to v (Go: m[k] = v)
MapSet(m, k, v) == [x \in DOMAIN m \cup {k} |-> IF x = k THEN v ELSE m[x]]
\* m without key k (Go: delete(m, k))
MapDelete(m, k) == [x \in DOMAIN m \ {k} |-> m[x]]
EmptyMap == [x \in {} |-> x]

(***************************************************************************)
(* Binding store by name (etchosts).                                       *)
(***************************************************************************)
Host(addr, name, aliases) ==
    [Address |-> addr, CanonicalHostname |-> name, Aliases |-> aliases]
EmptyHost == Host(NilIP, "", <<>>)

\* a hostname with a blank in it: Conf.Add takes any name that is not empty
HostBlank == HostText[1] \o " x"

\* strings.Split(strings.Replace(s, "\t", " ", -1), " ") on one piece of a line
Fields(s) == IF s = HostBlank THEN <<HostText[1], "x">> ELSE <<s>>

\* the fields of a line made of the pieces ps, each followed by a tab or a blank
RECURSIVE FieldsOf(_)
FieldsOf(ps) == IF ps = <<>> THEN <<>> ELSE Fields(Head(ps)) \o FieldsOf(Tail(ps))

\* Host.String, the fields of the rendered line
HostString(h) ==
    FieldsOf(<<IPString(h.Address), h.CanonicalHostname>> \o h.Aliases)

Min2(a, b) == IF a < b THEN a ELSE b

\* faulty variant: a duplicate check that compares hostnames only
findDuplicateNameOnly(h, x) ==
    IF h.CanonicalHostname = x.CanonicalHostname THEN x.CanonicalHostname ELSE ""

\* Host.findDuplicate: the field of x that collides with h, "" when none does
findDuplicate(h, x) ==
    IF h.CanonicalHostname = x.CanonicalHostname THEN x.CanonicalHostname
    ELSE IF h.Address = x.Address THEN IPString(x.Address)
    ELSE LET numAliases == Min2(Len(h.Aliases), Len(x.Aliases))
             hits == {ix \in 1..numAliases : h.Aliases[ix] = x.Aliases[ix]}
         IN  IF hits # {}
             THEN x.Aliases[CHOOSE ix \in hits : \A jx \in hits : ix <= jx]
             ELSE ""

\* etchosts Conf.duplicate: some entry collides with x
etcDuplicate(hosts, x) == \E k \in DOMAIN hosts : findDuplicate(hosts[k], x) # ""

\* etchosts Conf.add
etcAdd(hosts, h) ==
    IF etcDuplicate(hosts, h)
    THEN [hosts |-> hosts, err |-> "etchosts.ErrDuplicate"]
    ELSE [hosts |-> MapSet(hosts, h.CanonicalHostname, h), err |-> "nil"]

\* etchosts Conf.Add: (Host, error, present)
etcConfAdd(hosts, name, addr, aliases) ==
    IF name = ""
    THEN [hosts |-> hosts, ret |-> EmptyHost, err |-> "etchosts.ErrMissingHostname",
          present |-> FALSE]
    ELSE LET ret == Host(ParseIP(addr), name, aliases)
         IN  IF ret.Address = NilIP
             THEN [hosts |-> hosts, ret |-> Host(NilIP, name, <<>>),
                   err |-> "etchosts.ErrBadIPFormat", present |-> FALSE]
             ELSE LET r == etcAdd(hosts, ret)
                  IN  [hosts |-> r.hosts, ret |-> ret, err |-> r.err,
                       present |-> r.err # "nil"]

\* etchosts Conf.Remove: deletes the entry of that hostname, if any
etcRemove(hosts, name) == MapDelete(hosts, name)

\* etchosts Conf.GetByHostname: (Host, error)
GetByHostname(hosts, name) ==
    IF name \in DOMAIN hosts
    THEN [host |-> hosts[name], err |-> "nil"]
    ELSE [host |-> EmptyHost, err |-> "etchosts.ErrNotFoundHostname"]

\* etchosts Conf.GetByAddress: the (Host, error) results the map's iteration order allows
GetByAddress(hosts, addr) ==
    LET ipAddr == ParseIP(addr)
        found  == {k \in DOMAIN hosts : hosts[k].Address = ipAddr}
    IN  IF ipAddr = NilIP THEN {[host |-> EmptyHost, err |-> "etchosts.ErrBadIPFormat"]}
        ELSE IF found = {} THEN {[host |-> EmptyHost, err |-> "etchosts.ErrNotFoundAddress"]}
        ELSE {[host |-> hosts[k], err |-> "nil"] : k \in found}

(***************************************************************************)
(* Binding store by hardware address (dhcphosts).                          *)
(***************************************************************************)
Binding(hw, ip) == [HW |-> hw, IP |-> ip]
EmptyBinding == Binding(NilHW, NilIP)

\* Binding.String, the fields of the rendered line
BindingString(b) == <<HWString(b.HW), IPString(b.IP)>>

\* Binding.Duplicate
BindingDuplicate(b, x) == b.HW = x.HW

\* dhcphosts Conf.duplicate
dhcpDuplicate(bindings, x) ==
    \E k \in DOMAIN bindings : BindingDuplicate(bindings[k], x)

\* dhcphosts Conf.add
dhcpAdd(bindings, b) ==
    IF dhcpDuplicate(bindings, b)
    THEN [bindings |-> bindings, err |-> "dhcphosts.ErrDuplicateFound"]
    ELSE [bindings |-> MapSet(bindings, HWString(b.HW), b), err |-> "nil"]

\* dhcphosts Conf.Add: (Binding, error, present)
dhcpConfAdd(bindings, mac, ip) ==
    LET p == ParseMAC(mac)
    IN  IF p.err # "nil"
        THEN [bindings |-> bindings, ret |-> EmptyBinding, err |-> p.err,
              present |-> FALSE]
        ELSE LET ret == Binding(p.HW, ParseIP(ip))
             IN  IF ret.IP = NilIP
                 THEN [bindings |-> bindings, ret |-> ret,
                       err |-> "dhcphosts.ErrBadIPFormat", present |-> FALSE]
                 ELSE LET r == dhcpAdd(bindings, ret)
                      IN  [bindings |-> r.bindings, ret |-> ret, err |-> r.err,
                           present |-> r.err # "nil"]

\* dhcphosts Conf.GetByHWAddr: (Binding, error), the map read at the text given
GetByHWAddr(bindings, hw) ==
    IF hw \in DOMAIN bindings
    THEN [binding |-> bindings[hw], err |-> "nil"]
    ELSE [binding |-> EmptyBinding, err |-> "dhcphosts.ErrHWAddrNotFound"]

\* faulty variant: the search that stops at the first binding that has any address
GetByIPAny(bindings, ip) ==
    IF DOMAIN bindings = {}
    THEN {[binding |-> EmptyBinding, err |-> "dhcphosts.ErrIPAddrNotFound"]}
    ELSE {[binding |-> bindings[k], err |-> "nil"] : k \in DOMAIN bindings}

\* dhcphosts Conf.GetByIP: the (Binding, error) results the map's iteration order allows
GetByIP(bindings, ip) ==
    LET x     == ParseIP(ip)
        found == {k \in DOMAIN bindings : bindings[k].IP = x}
    IN  IF x = NilIP THEN {[binding |-> EmptyBinding, err |-> "dhcphosts.ErrBadIPFormat"]}
        ELSE IF found = {}
             THEN {[binding |-> EmptyBinding, err |-> "dhcphosts.ErrIPAddrNotFound"]}
             ELSE {[binding |-> bindings[k], err |-> "nil"] : k \in found}

(***************************************************************************)
(* The two on-disk formats.  A file is a sequence of lines, a line the     *)
(* sequence of its fields (what strings.Split returns for it).             *)
(***************************************************************************)
\* ParseHost: (Host, error)
ParseHost(addr, name, aliases) ==
    LET h == Host(ParseIP(addr), name, aliases)
    IN  [host |-> h,
         err  |-> IF h.Address = NilIP THEN "etchosts.ErrBadIPFormat" ELSE "nil"]

\* ParseHostString on the fields of a line
ParseHostString(items) ==
    IF Len(items) < 2 THEN [host |-> EmptyHost, err |-> "etchosts.ErrBadEntryFormat"]
    ELSE ParseHost(items[1], items[2],
                   IF Len(items) > 2 THEN SubSeq(items, 3, Len(items)) ELSE <<>>)

\* faulty variant: a parse that gives up at the first line that does not parse
RECURSIVE etcParseFromStrict(_, _, _)
etcParseFromStrict(hosts, text, i) ==
    IF i > Len(text) THEN [hosts |-> hosts, err |-> "nil"]
    ELSE LET p == ParseHostString(text[i])
         IN  IF p.err # "nil" THEN [hosts |-> EmptyMap, err |-> p.err]
             ELSE etcParseFromStrict(etcAdd(hosts, p.host).hosts, text, i + 1)

\* etchosts Parse: (hosts, error); a line that does not parse, or collides, is skipped
RECURSIVE etcParseFrom(_, _, _)
etcParseFrom(hosts, text, i) ==
    IF i > Len(text) THEN [hosts |-> hosts, err |-> "nil"]
    ELSE LET p == ParseHostString(text[i])
         IN  IF p.err # "nil" THEN etcParseFrom(hosts, text, i + 1)
             ELSE etcParseFrom(etcAdd(hosts, p.host).hosts, text, i + 1)

etcParse(text) == etcParseFrom(EmptyMap, text, 1)

\* ParseBinding: (Binding, error)
ParseBinding(hw, ip) ==
    LET p == ParseMAC(hw)
    IN  IF p.err # "nil" THEN [binding |-> EmptyBinding, err |-> "dhcphosts.ErrBadHWAddrFormat"]
        ELSE IF ParseIP(ip) = NilIP
             THEN [binding |-> EmptyBinding, err |-> "dhcphosts.ErrBadIPFormat"]
             ELSE [binding |-> Binding(p.HW, ParseIP(ip)), err |-> "nil"]

\* ParseBindingString on the fields of a line
ParseBindingString(a) ==
    IF Len(a) # 2 THEN [binding |-> EmptyBinding, err |-> "dhcphosts.ErrBadBindingFormat"]
    ELSE ParseBinding(a[1], a[2])

\* faulty variant: a parse that returns the bindings read before the bad line
RECURSIVE dhcpParseFromPartial(_, _, _)
dhcpParseFromPartial(bindings, text, i) ==
    IF i > Len(text) THEN [bindings |-> bindings, err |-> "nil"]
    ELSE LET p == ParseBindingString(text[i])
         IN  IF p.err # "nil" THEN [bindings |-> bindings, err |-> p.err]
             ELSE dhcpParseFromPartial(dhcpAdd(bindings, p.binding).bindings, text, i + 1)

\* dhcphosts Parse: (bindings, error); the first line that does not parse fails the
\* whole parse, a line that collides is dropped
RECURSIVE dhcpParseFrom(_, _, _)
dhcpParseFrom(bindings, text, i) ==
    IF i > Len(text) THEN [bindings |-> bindings, err |-> "nil"]
    ELSE LET p == ParseBindingString(text[i])
         IN  IF p.err # "nil" THEN [bindings |-> EmptyMap, err |-> p.err]
             ELSE dhcpParseFrom(dhcpAdd(bindings, p.binding).bindings, text, i + 1)

dhcpParse(text) == dhcpParseFrom(EmptyMap, text, 1)

\* the orders in which a range over a Go map can visit the keys S
Orders(S) ==
    {o \in [1..Cardinality(S) -> S] : \A i, j \in 1..Cardinality(S) : i # j => o[i] # o[j]}

\* etchosts Conf.String: one line per entry, in each order the map can be visited
etcString(hosts) ==
    {[i \in 1..Len(o) |-> HostString(hosts[o[i]])] : o \in Orders(DOMAIN hosts)}

\* dhcphosts Conf.String
dhcpString(bindings) ==
    {[i \in 1..Len(o) |-> BindingString(bindings[o[i]])] : o \in Orders(DOMAIN bindings)}

(***************************************************************************)
(* LookupAddress (pkg/server/lookup.go).  A reply is the AddressReply and  *)
(* the error returned with it.  No lookup takes dmm.lock, so each lookup   *)
(* is two reads of the stores: the first by the key given, the second by   *)
(* the address the first one found.                                        *)
(***************************************************************************)
Reply(hostname, mac, ip, match, err) ==
    [Hostname |-> hostname, Macaddr |-> mac, Ipaddr |-> ip, Match |-> match, err |-> err]

\* faulty variant: a lookup that goes to the stores with any value
MissingKeyNever(val) == FALSE

\* lookupAddressBy*, lines 51, 79, 108: the value of the selected key is empty
MissingKey(val) == val = ""

\* the first read: the replies it can produce, and whether a second read follows
lookupFirst(key, val, hosts, bindings) ==
    IF key \notin {"HOSTNAME", "MACADDR", "IPADDR"}
    THEN {[reply |-> Reply("", "", "", "NONE", "ErrInvalidParam"), more |-> FALSE]}
    ELSE IF MissingKey(val)
    THEN {[reply |-> Reply("", "", "", "NONE", "ErrMissingKey"), more |-> FALSE]}
    ELSE IF key = "HOSTNAME"
    THEN LET g == GetByHostname(hosts, val)
         IN  IF g.err # "nil"
             THEN {[reply |-> Reply("", "", "", "NONE", g.err), more |-> FALSE]}
             ELSE {[reply |-> Reply(g.host.CanonicalHostname, "",
                                    IPString(g.host.Address), "PARTIAL", "nil"),
                    more |-> TRUE]}
    ELSE IF key = "MACADDR"
    THEN LET g == GetByHWAddr(bindings, val)
         IN  IF g.err # "nil"
             THEN {[reply |-> Reply("", "", "", "NONE", g.err), more |-> FALSE]}
             ELSE {[reply |-> Reply("", HWString(g.binding.HW),
                                    IPString(g.binding.IP), "PARTIAL", "nil"),
                    more |-> TRUE]}
    ELSE {IF g.err # "nil"
          THEN [reply |-> Reply("", "", "", "NONE", g.err), more |-> FALSE]
          ELSE [reply |-> Reply(g.host.CanonicalHostname, "",
                                IPString(g.host.Address), "PARTIAL", "nil"),
                more |-> TRUE]
          : g \in GetByAddress(hosts, val)}

\* faulty variant: a second read that answers with an empty reply when it finds nothing
lookupSecondReset(key, reply, hosts, bindings) ==
    IF key = "MACADDR"
    THEN {IF g.err # "nil" THEN Reply("", "", "", "NONE", "nil")
          ELSE [reply EXCEPT !.Hostname = g.host.CanonicalHostname, !.Match = "FULL"]
          : g \in GetByAddress(hosts, reply.Ipaddr)}
    ELSE {IF g.err # "nil" THEN Reply("", "", "", "NONE", "nil")
          ELSE [reply EXCEPT !.Macaddr = HWString(g.binding.HW), !.Match = "FULL"]
          : g \in GetByIP(bindings, reply.Ipaddr)}

\* the second read, from the reply of the first
lookupSecond(key, reply, hosts, bindings) ==
    IF key = "MACADDR"
    THEN {IF g.err # "nil" THEN reply
          ELSE [reply EXCEPT !.Hostname = g.host.CanonicalHostname, !.Match = "FULL"]
          : g \in GetByAddress(hosts, reply.Ipaddr)}
    ELSE {IF g.err # "nil" THEN reply
          ELSE [reply EXCEPT !.Macaddr = HWString(g.binding.HW), !.Match = "FULL"]
          : g \in GetByIP(bindings, reply.Ipaddr)}

\* the replies of a lookup whose two reads see the same stores
LookupAddress(key, val, hosts, bindings) ==
    UNION {IF f.more THEN lookupSecond(key, f.reply, hosts, bindings) ELSE {f.reply}
           : f \in lookupFirst(key, val, hosts, bindings)}

lookupAddressByHostname(hostname, hosts, bindings) ==
    LookupAddress("HOSTNAME", hostname, hosts, bindings)

(***************************************************************************)
(* RequestAddress (pkg/server/alter.go) and the persistence loop           *)
(* (pkg/server/store.go).                                                  *)
(***************************************************************************)
\* nameBefore and allocBefore are history: the name store and the allocator as they
\* were when the call in progress began
IdleCall ==
    [pc |-> "idle", Hostname |-> "", Macaddr |-> "", Ipaddr |-> "", IpReq |-> "",
     Match |-> "NONE", Key |-> "", err |-> "nil", hasReply |-> FALSE,
     nameBefore |-> EmptyMap, allocBefore |-> NewAllocator]

IdleLookup == [pc |-> "idle", key |-> "", val |-> "", reply |-> Reply("", "", "", "NONE", "nil")]

\* the match levels, in their order
MatchLevels == <<"NONE", "PARTIAL", "FULL">>
MatchRank(m) == CHOOSE i \in 1..3 : MatchLevels[i] = m

\* handleDuplicate on the Match and Key of the reply
handleDuplicate(ar, key) ==
    IF ar.Match = "NONE" THEN [ar EXCEPT !.Match = "PARTIAL", !.Key = key]
    ELSE IF ar.Match = "PARTIAL" THEN [ar EXCEPT !.Match = "FULL"]
    ELSE ar

\* faulty variant: a journal entry with the address as the client asked for it
FromAddressRequestAsAsked(action, c) ==
    [action |-> action,
     address |-> [hostname |-> c.Hostname, mac |-> c.Macaddr, ip |-> c.IpReq]]

\* FromAddressRequest: the journal entry of a request
FromAddressRequest(action, c) ==
    [action |-> action,
     address |-> [hostname |-> c.Hostname, mac |-> c.Macaddr, ip |-> c.Ipaddr]]

\* history: a run stays fresh while every call omits the IP and brings a hostname and
\* a hardware address that parse and that no earlier call of the run brought
FreshCall(h, hostname, mac, ipReq) ==
    /\ h.fresh
    /\ ipReq = ""
    /\ hostname # ""
    /\ ParseMAC(mac).err = "nil"
    /\ \A i \in 1..Len(h.calls) :
          /\ h.calls[i].Hostname # hostname
          /\ ParseMAC(h.calls[i].Macaddr).HW # ParseMAC(mac).HW

histAfter(h, c) ==
    IF FreshCall(h, c.Hostname, c.Macaddr, c.IpReq)
    THEN [fresh |-> TRUE,
          calls |-> Append(h.calls, [Hostname |-> c.Hostname, Macaddr |-> c.Macaddr,
                                     Ipaddr |-> c.Ipaddr, err |-> c.err,
                                     hasReply |-> c.hasReply])]
    ELSE [fresh |-> FALSE, calls |-> <<>>]

\* a call returns: the caller has (reply, err), the reply nil when it failed, and the
\* history records the call
Return(c, result) ==
    /\ call' = [call EXCEPT ![c] =
          IF result.hasReply THEN [result EXCEPT !.pc = "done", !.nameBefore = EmptyMap,
                                                 !.allocBefore = NewAllocator]
          ELSE [IdleCall EXCEPT !.pc = "done", !.err = result.err]]
    /\ hist' = histAfter(hist, result)

\* faulty variant: a check of the request that looks at the hostname only
BadRequestHostnameOnly(hostname, mac) == hostname = ""

\* RequestAddress, line 74: the request lacks its hostname or its hardware address
BadRequest(hostname, mac) == hostname = "" \/ mac = ""

\* RequestAddress, lines 74-105: the request is checked, the lock taken, the address
\* allocated or reserved, and the hostname inserted.  rnd is what rand.Int63n returns.
ReqBegin(c, hostname, mac, ip, rnd) ==
    /\ call[c].pc \in {"idle", "done"}
    /\ LET req == [IdleCall EXCEPT !.Hostname = hostname, !.Macaddr = mac,
                                   !.Ipaddr = ip, !.IpReq = ip]
       IN  IF BadRequest(hostname, mac)
           THEN /\ Return(c, [req EXCEPT !.err = "ErrRequestData"])
                /\ UNCHANGED <<ipAlloc, nameMap, addrMap, lock>>
           ELSE /\ lock = ""
                /\ IF ip # "" /\ ParseIP(ip) = NilIP
                   THEN \* return nil, err with err still nil
                        /\ Return(c, req)
                        /\ UNCHANGED <<ipAlloc, nameMap, addrMap, lock>>
                   ELSE LET al   == Allocate(ipAlloc, rnd)
                            a2   == IF ip = "" THEN al.a ELSE Reserve(ipAlloc, ParseIP(ip))
                            req2 == IF ip = "" THEN [req EXCEPT !.Ipaddr = IPString(al.ip)]
                                    ELSE req
                            r    == etcConfAdd(nameMap, hostname, req2.Ipaddr, <<>>)
                        IN  /\ ipAlloc' = a2
                            /\ addrMap' = addrMap
                            /\ IF r.err # "nil"
                               THEN /\ Return(c, [req2 EXCEPT !.err = r.err])
                                    /\ UNCHANGED <<nameMap, lock>>
                               ELSE /\ nameMap' = r.hosts
                                    /\ lock' = c
                                    /\ call' = [call EXCEPT ![c] =
                                          [(IF r.present
                                            THEN handleDuplicate(req2, "HOSTNAME")
                                            ELSE req2)
                                           EXCEPT !.pc = "named", !.nameBefore = nameMap,
                                                  !.allocBefore = ipAlloc]]
                                    /\ hist' = hist
    /\ UNCHANGED <<lk, loopPc, closePc, journal, hostsFile, leasesFile, allocHist, fileOp,
            readOnly>>

\* faulty variant: a failed insert of the hardware address leaves the hostname in
ReqAddrNoRollback(c) ==
    /\ call[c].pc = "named"
    /\ LET req == call[c]
           r   == dhcpConfAdd(addrMap, req.Macaddr, req.Ipaddr)
       IN  IF r.err # "nil"
           THEN /\ lock' = ""
                /\ Return(c, [req EXCEPT !.err = r.err, !.Match = "NONE", !.Key = ""])
                /\ UNCHANGED <<nameMap, addrMap, journal>>
           ELSE /\ addrMap' = r.bindings
                /\ journal' = Append(journal, FromAddressRequest("add", req))
                /\ call' = [call EXCEPT ![c] =
                      [(IF r.present THEN handleDuplicate(req, "MACADDR") ELSE req)
                       EXCEPT !.pc = "post", !.hasReply = TRUE]]
                /\ UNCHANGED <<nameMap, lock, hist>>
    /\ UNCHANGED <<ipAlloc, lk, loopPc, closePc, hostsFile, leasesFile, allocHist, fileOp,
            readOnly>>

\* RequestAddress, lines 107-125: the hardware address is inserted, or the hostname
\* taken back; the journal entry is written and the reply prepared
ReqAddr(c) ==
    /\ call[c].pc = "named"
    /\ LET req == call[c]
           r   == dhcpConfAdd(addrMap, req.Macaddr, req.Ipaddr)
       IN  IF r.err # "nil"
           THEN /\ nameMap' = etcRemove(nameMap, req.Hostname)
                /\ lock' = ""
                /\ Return(c, [req EXCEPT !.err = r.err, !.Match = "NONE", !.Key = ""])
                /\ UNCHANGED <<addrMap, journal>>
           ELSE /\ addrMap' = r.bindings
                /\ journal' = Append(journal, FromAddressRequest("add", req))
                /\ call' = [call EXCEPT ![c] =
                      [(IF r.present THEN handleDuplicate(req, "MACADDR") ELSE req)
                       EXCEPT !.pc = "post", !.hasReply = TRUE]]
                /\ UNCHANGED <<nameMap, lock, hist>>
    /\ UNCHANGED <<ipAlloc, lk, loopPc, closePc, hostsFile, leasesFile, allocHist, fileOp,
            readOnly>>

\* the deferred requestStore, then the deferred Unlock: the send on the unbuffered
\* flushChan completes when storeLoop receives it, and only then is the lock released
ReqPost(c) ==
    /\ call[c].pc = "post"
    /\ loopPc = "recv"
    /\ loopPc' = "store"
    /\ lock' = ""
    /\ Return(c, call[c])
    /\ UNCHANGED <<ipAlloc, nameMap, addrMap, lk, closePc, journal, hostsFile,
                   leasesFile, allocHist, fileOp, readOnly>>

\* faulty variant: a DeleteAddress that takes the hostname of the request out of the
\* name store
DeleteAddressByName(c, hostname) ==
    /\ call[c].pc \in {"idle", "done"}
    /\ lock = ""
    /\ nameMap' = etcRemove(nameMap, hostname)
    /\ call' = [call EXCEPT ![c] = [IdleCall EXCEPT !.pc = "done"]]
    /\ UNCHANGED <<ipAlloc, addrMap, lock, lk, loopPc, closePc, journal, hostsFile,
                   leasesFile, hist, allocHist, fileOp, readOnly>>

\* DeleteAddress: the lock is taken and released, and (nil, ErrNotSupported) returned,
\* whatever the request carries
DeleteAddress(c, hostname) ==
    /\ call[c].pc \in {"idle", "done"}
    /\ lock = ""
    /\ call' = [call EXCEPT ![c] = [IdleCall EXCEPT !.pc = "done", !.err = "ErrNotSupported"]]
    /\ UNCHANGED <<ipAlloc, nameMap, addrMap, lock, lk, loopPc, closePc, journal,
                   hostsFile, leasesFile, hist, allocHist, fileOp, readOnly>>

\* the lines of a text; the manager never reads its files back, and the content of a
\* file is kept as the set of its lines
Lines(text) == {text[i] : i \in 1..Len(text)}

\* faulty variant: a Store that writes the files without taking the lock
StoreUnlocked ==
    /\ loopPc = "store"
    /\ loopPc' = "recv"
    /\ \E text \in etcString(nameMap) : hostsFile' = Lines(text)
    /\ \E text \in dhcpString(addrMap) : leasesFile' = Lines(text)
    /\ UNCHANGED <<ipAlloc, nameMap, addrMap, lock, call, lk, closePc, journal, hist,
                   allocHist, fileOp, readOnly>>

\* Store, called by storeLoop: under the lock, both files are written, each with the
\* lines of its store (writes are taken to succeed)
Store ==
    /\ loopPc = "store"
    /\ lock = ""
    /\ loopPc' = "recv"
    /\ \E text \in etcString(nameMap) : hostsFile' = Lines(text)
    /\ \E text \in dhcpString(addrMap) : leasesFile' = Lines(text)
    /\ UNCHANGED <<ipAlloc, nameMap, addrMap, lock, call, lk, closePc, journal, hist,
                   allocHist, fileOp, readOnly>>

\* Close is called: it goes to send false on flushChan
CloseBegin ==
    /\ closePc = "idle"
    /\ closePc' = "send"
    /\ UNCHANGED <<ipAlloc, nameMap, addrMap, lock, call, lk, loopPc, journal,
                   hostsFile, leasesFile, hist, allocHist, fileOp, readOnly>>

\* storeLoop receives false and returns; Close goes on to wait on doneChan, on which
\* nothing is ever sent (the send after the loop is never reached)
CloseSend ==
    /\ closePc = "send"
    /\ loopPc = "recv"
    /\ loopPc' = "returned"
    /\ closePc' = "wait"
    /\ UNCHANGED <<ipAlloc, nameMap, addrMap, lock, call, lk, journal,
                   hostsFile, leasesFile, hist, allocHist, fileOp, readOnly>>

\* LookupAddress, the first read
LookupBegin(key, val) ==
    /\ lk.pc \in {"idle", "done"}
    /\ \E f \in lookupFirst(key, val, nameMap, addrMap) :
          lk' = [pc |-> IF f.more THEN "second" ELSE "done",
                 key |-> key, val |-> val, reply |-> f.reply]
    /\ UNCHANGED <<ipAlloc, nameMap, addrMap, lock, call, loopPc, closePc, journal,
                   hostsFile, leasesFile, hist, allocHist, fileOp, readOnly>>

\* LookupAddress, the second read and the return
LookupEnd ==
    /\ lk.pc = "second"
    /\ \E r \in lookupSecond(lk.key, lk.reply, nameMap, addrMap) :
          lk' = [lk EXCEPT !.pc = "done", !.reply = r]
    /\ UNCHANGED <<ipAlloc, nameMap, addrMap, lock, call, loopPc, closePc, journal,
                   hostsFile, leasesFile, hist, allocHist, fileOp, readOnly>>

(***************************************************************************)
(* Construction (NewDNSMasqMgr): the two files are parsed, the allocator   *)
(* is new, the loop is started.                                            *)
(***************************************************************************)
\* the files the manager is started on
BootFiles ==
    { [hosts |-> <<>>, leases |-> <<>>],
      [hosts |-> << <<IPText[RangeStart], HostText[1]>> >>,
       leases |-> << <<MacText[1], IPText[RangeStart]>> >>],
      [hosts |-> << <<IPText[RangeStart], HostText[1]>> >>, leases |-> <<>>],
      [hosts |-> <<>>, leases |-> << <<MacText[1], IPText[RangeStart]>> >>] }

\* no call made on the stores as libraries
NoFileOp == [op |-> "", text |-> <<>>, hosts |-> EmptyMap, bindings |-> EmptyMap,
             err |-> "nil", out |-> <<>>, arg |-> "", binding |-> EmptyBinding,
             host |-> EmptyHost, present |-> FALSE]

\* the body of NewDNSMasqMgr, with the value dmm.readOnly has when the constructor
\* called returns
NewDNSMasqMgrWith(boot, callers, ro) ==
    /\ readOnly = ro
    /\ etcParse(boot.hosts).err = "nil"
    /\ dhcpParse(boot.leases).err = "nil"
    /\ ipAlloc = NewAllocator
    /\ nameMap = etcParse(boot.hosts).hosts
    /\ addrMap = dhcpParse(boot.leases).bindings
    /\ hostsFile = Lines(boot.hosts)
    /\ leasesFile = Lines(boot.leases)
    /\ lock = ""
    /\ call = [c \in callers |-> IdleCall]
    /\ lk = IdleLookup
    /\ loopPc = "recv"
    /\ closePc = "idle"
    /\ journal = <<>>
    /\ hist = [fresh |-> boot.hosts = <<>> /\ boot.leases = <<>>, calls |-> <<>>]
    /\ lastAlloc = [op |-> "NewAllocator", ip |-> NilIP, end |-> NilIP,
                       before |-> NewAllocator]
    /\ outstanding = {}
    /\ allocRun = 0
    /\ fileOp = NoFileOp

NewDNSMasqMgr(boot, callers) == NewDNSMasqMgrWith(boot, callers, FALSE)

\* NewDNSMasqMgrReadOnly: NewDNSMasqMgr without a journal path, then readOnly is set
NewDNSMasqMgrReadOnly(boot, callers) == NewDNSMasqMgrWith(boot, callers, TRUE)

\* what a caller can send
ReqHostnames == {""} \cup {HostText[i] : i \in HostIds}
ReqMacs == {"", "zz"} \cup {MacText[k] : k \in MacIds} \cup {MacUpper[1]}
ReqIps == {"zz", IPText[RangeEnd + 1]} \cup {IPText[n] : n \in RangeStart..RangeEnd}

Init == \E boot \in BootFiles : NewDNSMasqMgr(boot, {"c1"})

Next ==
    \/ \E c \in DOMAIN call, h \in ReqHostnames, m \in ReqMacs, rnd \in Offsets :
          ReqBegin(c, h, m, "", rnd)
    \/ \E c \in DOMAIN call, h \in ReqHostnames, m \in ReqMacs, ip \in ReqIps :
          ReqBegin(c, h, m, ip, 0)
    \/ \E c \in DOMAIN call : ReqAddr(c)
    \/ \E c \in DOMAIN call : ReqPost(c)
    \/ \E c \in DOMAIN call, h \in ReqHostnames : DeleteAddress(c, h)
    \/ Store
    \/ CloseBegin
    \/ CloseSend

Spec == Init /\ [][Next]_vars

(***************************************************************************)
(* The manager with two callers and a lookup client: requests that parse,  *)
(* or whose hardware address does not, and lookups by each key.            *)
(***************************************************************************)
ConcMacs == {"zz"} \cup {MacText[k] : k \in MacIds}
LookupKeys == {"HOSTNAME", "MACADDR", "IPADDR", "OTHER"}
LookupVals(key) ==
    {""} \cup (IF key = "HOSTNAME" THEN {HostText[1]}
               ELSE IF key = "MACADDR" THEN {MacText[1]}
               ELSE IF key = "IPADDR" THEN {IPText[RangeStart]}
               ELSE {})

InitConc == NewDNSMasqMgr([hosts |-> <<>>, leases |-> <<>>], {"c1", "c2"})

NextConc ==
    \/ \E c \in DOMAIN call, h \in {HostText[i] : i \in HostIds}, m \in ConcMacs,
          rnd \in Offsets : ReqBegin(c, h, m, "", rnd)
    \/ \E c \in DOMAIN call : ReqAddr(c)
    \/ \E c \in DOMAIN call : ReqPost(c)
    \/ Store
    \/ CloseBegin
    \/ CloseSend
    \/ \E key \in LookupKeys : \E val \in LookupVals(key) : LookupBegin(key, val)
    \/ LookupEnd

SpecConc == InitConc /\ [][NextConc]_vars

(***************************************************************************)
(* The manager started on each of its files, with a caller whose requests  *)
(* parse or carry a hardware address in upper case or one that does not    *)
(* parse, and a lookup client that asks by each key and value.             *)
(***************************************************************************)
LookupReqMacs == {"zz", MacUpper[1]} \cup {MacText[k] : k \in MacIds}
AllLookupVals(key) ==
    {""} \cup (IF key = "HOSTNAME" THEN {HostText[i] : i \in HostIds}
               ELSE IF key = "MACADDR" THEN {MacText[k] : k \in MacIds} \cup {MacUpper[1]}
               ELSE IF key = "IPADDR" THEN {IPText[n] : n \in RangeStart..RangeEnd} \cup {"zz"}
               ELSE {})

InitLookup == \E boot \in BootFiles : NewDNSMasqMgr(boot, {"c1"})

NextLookup ==
    \/ \E c \in DOMAIN call, h \in {HostText[i] : i \in HostIds}, m \in LookupReqMacs,
          rnd \in Offsets : ReqBegin(c, h, m, "", rnd)
    \/ \E c \in DOMAIN call : ReqAddr(c)
    \/ \E c \in DOMAIN call : ReqPost(c)
    \/ Store
    \/ \E key \in LookupKeys : \E val \in AllLookupVals(key) : LookupBegin(key, val)
    \/ LookupEnd

SpecLookup == InitLookup /\ [][NextLookup]_vars

\* the same manager and caller, without the lookup client
NextRequests ==
    \/ \E c \in DOMAIN call, h \in {HostText[i] : i \in HostIds}, m \in LookupReqMacs,
          rnd \in Offsets : ReqBegin(c, h, m, "", rnd)
    \/ \E c \in DOMAIN call : ReqAddr(c)
    \/ \E c \in DOMAIN call : ReqPost(c)
    \/ Store

SpecRequests == InitLookup /\ [][NextRequests]_vars

\* the manager started on empty files, with one caller and the lookup client
NextMatch ==
    \/ \E c \in DOMAIN call, h \in {HostText[i] : i \in HostIds}, m \in ConcMacs,
          rnd \in Offsets : ReqBegin(c, h, m, "", rnd)
    \/ \E c \in DOMAIN call : ReqAddr(c)
    \/ \E c \in DOMAIN call : ReqPost(c)
    \/ Store
    \/ \E key \in LookupKeys : \E val \in LookupVals(key) : LookupBegin(key, val)
    \/ LookupEnd

SpecMatch == NewDNSMasqMgr([hosts |-> <<>>, leases |-> <<>>], {"c1"}) /\ [][NextMatch]_vars

(***************************************************************************)
(* The manager made by NewDNSMasqMgrReadOnly on each of its files, with a  *)
(* caller and a lookup client.                                             *)
(***************************************************************************)
InitReadOnly == \E boot \in BootFiles : NewDNSMasqMgrReadOnly(boot, {"c1"})

NextReadOnly ==
    \/ \E c \in DOMAIN call, h \in ReqHostnames, m \in ConcMacs, rnd \in Offsets :
          ReqBegin(c, h, m, "", rnd)
    \/ \E c \in DOMAIN call, h \in ReqHostnames, m \in ConcMacs :
          ReqBegin(c, h, m, IPText[RangeEnd], 0)
    \/ \E c \in DOMAIN call : ReqAddr(c)
    \/ \E c \in DOMAIN call : ReqPost(c)
    \/ \E c \in DOMAIN call, h \in ReqHostnames : DeleteAddress(c, h)
    \/ Store
    \/ \E key \in LookupKeys : \E val \in LookupVals(key) : LookupBegin(key, val)
    \/ LookupEnd

SpecReadOnly == InitReadOnly /\ [][NextReadOnly]_vars

(***************************************************************************)
(* The manager started on files that give each hostname no line or one     *)
(* address of the range, and each hardware address no line or one address  *)
(* of the range, with a lookup client that asks by each key and value.     *)
(***************************************************************************)
RangeIPs == RangeStart..RangeEnd

\* the hosts file with a line for each hostname i >= from that f gives an address
RECURSIVE HostsFileOf(_, _)
HostsFileOf(f, from) ==
    IF from > RangeSize THEN <<>>
    ELSE (IF f[from] = NilIP THEN <<>> ELSE << <<IPText[f[from]], HostText[from]>> >>)
         \o HostsFileOf(f, from + 1)

\* the leases file with a line for each hardware address k >= from that g gives an address
RECURSIVE LeasesFileOf(_, _)
LeasesFileOf(g, from) ==
    IF from > RangeSize THEN <<>>
    ELSE (IF g[from] = NilIP THEN <<>> ELSE << <<MacText[from], IPText[g[from]]>> >>)
         \o LeasesFileOf(g, from + 1)

LoadedFiles ==
    {[hosts |-> HostsFileOf(f, 1), leases |-> LeasesFileOf(g, 1)] :
        f \in [HostIds -> RangeIPs \cup {NilIP}], g \in [MacIds -> RangeIPs \cup {NilIP}]}

InitLoaded == \E boot \in LoadedFiles : NewDNSMasqMgr(boot, {"c1"})

NextLoaded ==
    \/ \E key \in LookupKeys : \E val \in AllLookupVals(key) : LookupBegin(key, val)
    \/ LookupEnd

SpecLoaded == InitLoaded /\ [][NextLoaded]_vars

(***************************************************************************)
(* The manager with two callers whose requests carry or lack a hostname,   *)
(* a hardware address and an address that parses, and who ask for          *)
(* deletions.                                                              *)
(***************************************************************************)
CallHostnames == {"", HostText[1]}
CallMacs == {"", MacText[1]}
CallIps == {"", "zz", IPText[RangeStart]}

InitCalls == NewDNSMasqMgr([hosts |-> <<>>, leases |-> <<>>], {"c1", "c2"})

NextCalls ==
    \/ \E c \in DOMAIN call, h \in CallHostnames, m \in CallMacs, ip \in CallIps,
          rnd \in Offsets : ReqBegin(c, h, m, ip, rnd)
    \/ \E c \in DOMAIN call : ReqAddr(c)
    \/ \E c \in DOMAIN call : ReqPost(c)
    \/ \E c \in DOMAIN call, h \in CallHostnames : DeleteAddress(c, h)
    \/ Store

SpecCalls == InitCalls /\ [][NextCalls]_vars

(***************************************************************************)
(* The two stores as libraries: entries are added through Conf.Add, and a  *)
(* store is rendered with Conf.String and the text parsed with Parse.      *)
(***************************************************************************)
AddNames == {"", HostBlank} \cup {HostText[i] : i \in HostIds}
AddAddrs == {"zz", IPMapped[RangeStart]} \cup {IPText[n] : n \in RangeIPs}
AddAliases == {<<>>, <<"alias1">>, <<"alias1", "alias2">>}
AddMacs == {"zz", MacUpper[1]} \cup {MacText[k] : k \in MacIds}

\* etchosts Conf.Add on the name store
EtcAdd(name, addr, aliases) ==
    LET r == etcConfAdd(nameMap, name, addr, aliases)
    IN  /\ nameMap' = r.hosts
        /\ fileOp' = [NoFileOp EXCEPT !.op = "etcAdd", !.arg = name, !.host = r.ret,
                                      !.err = r.err, !.present = r.present]
        /\ UNCHANGED <<ipAlloc, addrMap, lock, call, lk, loopPc, closePc, journal,
                       hostsFile, leasesFile, hist, allocHist, readOnly>>

\* dhcphosts Conf.Add on the address store
DhcpAdd(mac, ip) ==
    LET r == dhcpConfAdd(addrMap, mac, ip)
    IN  /\ addrMap' = r.bindings
        /\ fileOp' = [NoFileOp EXCEPT !.op = "dhcpAdd", !.arg = mac, !.binding = r.ret,
                                      !.err = r.err, !.present = r.present]
        /\ UNCHANGED <<ipAlloc, nameMap, lock, call, lk, loopPc, closePc, journal,
                       hostsFile, leasesFile, hist, allocHist, readOnly>>

\* etchosts Parse of the Conf.String of the name store
EtcRoundTrip ==
    /\ \E text \in etcString(nameMap) :
          fileOp' = [NoFileOp EXCEPT !.op = "etcRoundTrip", !.text = text,
                                     !.hosts = etcParse(text).hosts,
                                     !.err = etcParse(text).err]
    /\ UNCHANGED <<mgrVars, ipAlloc, allocHist>>

\* dhcphosts Parse of the Conf.String of the address store
DhcpRoundTrip ==
    /\ \E text \in dhcpString(addrMap) :
          fileOp' = [NoFileOp EXCEPT !.op = "dhcpRoundTrip", !.text = text,
                                     !.bindings = dhcpParse(text).bindings,
                                     !.err = dhcpParse(text).err]
    /\ UNCHANGED <<mgrVars, ipAlloc, allocHist>>

\* dhcphosts Conf.GetByHWAddr on the address store
DhcpGetByHWAddr(hw) ==
    /\ LET r == GetByHWAddr(addrMap, hw)
       IN  fileOp' = [NoFileOp EXCEPT !.op = "getByHWAddr", !.arg = hw,
                                      !.binding = r.binding, !.err = r.err]
    /\ UNCHANGED <<mgrVars, ipAlloc, allocHist>>

\* dhcphosts Conf.GetByIP on the address store
DhcpGetByIP(ip) ==
    /\ \E r \in GetByIP(addrMap, ip) :
          fileOp' = [NoFileOp EXCEPT !.op = "getByIP", !.arg = ip,
                                     !.binding = r.binding, !.err = r.err]
    /\ UNCHANGED <<mgrVars, ipAlloc, allocHist>>

InitFiles == NewDNSMasqMgr([hosts |-> <<>>, leases |-> <<>>], {"c1"})

NextFiles ==
    \/ \E name \in AddNames, addr \in AddAddrs, aliases \in AddAliases :
          EtcAdd(name, addr, aliases)
    \/ \E mac \in AddMacs, ip \in AddAddrs : DhcpAdd(mac, ip)
    \/ EtcRoundTrip
    \/ DhcpRoundTrip
    \/ \E mac \in AddMacs : DhcpGetByHWAddr(mac)
    \/ \E ip \in AddAddrs : DhcpGetByIP(ip)

SpecFiles == InitFiles /\ [][NextFiles]_vars

\* the name store alone, built by Conf.Add
NextNames ==
    \E name \in AddNames, addr \in AddAddrs, aliases \in AddAliases :
       EtcAdd(name, addr, aliases)

SpecNames == InitFiles /\ [][NextNames]_vars

(***************************************************************************)
(* The two parsers on texts of well-formed and malformed lines.  The text  *)
(* is drawn first; then one of the parsers is applied to it.               *)
(***************************************************************************)
\* lines of a hosts file, each as strings.Split cuts it: entries, an entry with an
\* alias, a blank line, a bad address, an address followed by a blank and nothing else
HostLines ==
    {<<IPText[n], HostText[i]>> : n \in RangeIPs, i \in HostIds}
    \cup {<<IPText[RangeStart], HostText[1], "alias1">>, <<"">>, <<"zz", HostText[1]>>,
          <<IPText[RangeStart], "">>}

\* lines of a leases file: bindings in the canonical form and in upper case, a line
\* of one field and one of three, a bad hardware address, a bad address
LeaseLines ==
    {<<MacText[k], IPText[n]>> : k \in MacIds, n \in RangeIPs}
    \cup {<<MacUpper[1], IPText[RangeStart]>>, <<MacText[1]>>,
          <<MacText[1], IPText[RangeStart], "x">>, <<"zz", IPText[RangeStart]>>,
          <<MacText[1], "zz">>}

TextsOf(lines) == UNION {[1..n -> lines] : n \in 0..MaxLines}

\* etchosts Parse
EtcParse ==
    /\ fileOp.op = ""
    /\ fileOp' = [fileOp EXCEPT !.op = "etcParse", !.hosts = etcParse(fileOp.text).hosts,
                                !.err = etcParse(fileOp.text).err]
    /\ UNCHANGED <<mgrVars, ipAlloc, allocHist>>

\* dhcphosts Parse
DhcpParse ==
    /\ fileOp.op = ""
    /\ fileOp' = [fileOp EXCEPT !.op = "dhcpParse",
                                !.bindings = dhcpParse(fileOp.text).bindings,
                                !.err = dhcpParse(fileOp.text).err]
    /\ UNCHANGED <<mgrVars, ipAlloc, allocHist>>

\* dhcphosts Parse, then Conf.String of the store parsed
DhcpDump ==
    /\ fileOp.op = ""
    /\ LET p == dhcpParse(fileOp.text)
       IN  \E out \in (IF p.err = "nil" THEN dhcpString(p.bindings) ELSE {<<>>}) :
              fileOp' = [fileOp EXCEPT !.op = "dhcpDump", !.bindings = p.bindings,
                                      !.err = p.err, !.out = out]
    /\ UNCHANGED <<mgrVars, ipAlloc, allocHist>>

InitParse ==
    \E text \in TextsOf(HostLines) \cup TextsOf(LeaseLines) :
       /\ readOnly = FALSE
       /\ ipAlloc = NewAllocator
       /\ nameMap = EmptyMap
       /\ addrMap = EmptyMap
       /\ hostsFile = Lines(<<>>)
       /\ leasesFile = Lines(<<>>)
       /\ lock = ""
       /\ call = [c \in {"c1"} |-> IdleCall]
       /\ lk = IdleLookup
       /\ loopPc = "recv"
       /\ closePc = "idle"
       /\ journal = <<>>
       /\ hist = [fresh |-> TRUE, calls |-> <<>>]
       /\ lastAlloc = [op |-> "NewAllocator", ip |-> NilIP, end |-> NilIP,
                       before |-> NewAllocator]
       /\ outstanding = {}
       /\ allocRun = 0
       /\ fileOp = [NoFileOp EXCEPT !.text = text]

NextParse ==
    \/ EtcParse
    \/ DhcpParse
    \/ DhcpDump

SpecParse == InitParse /\ [][NextParse]_vars

(***************************************************************************)
(* The allocator alone, under any sequence of its four operations.         *)
(***************************************************************************)
AllocIPs == Octets \cup {NilIP}

AllocAllocate(rnd) ==
    /\ LET r == Allocate(ipAlloc, rnd)
       IN  /\ ipAlloc' = r.a
           /\ lastAlloc' = [op |-> "Allocate", ip |-> r.ip, end |-> NilIP,
                            before |-> ipAlloc]
           /\ outstanding' = IF r.ip # NilIP THEN outstanding \cup {r.ip} ELSE outstanding
    /\ allocRun' = IF allocRun \in 0..RangeSize THEN allocRun + 1 ELSE -1
    /\ UNCHANGED <<mgrVars, fileOp>>

AllocReserve(ip) ==
    /\ ipAlloc' = Reserve(ipAlloc, ip)
    /\ lastAlloc' = [op |-> "Reserve", ip |-> ip, end |-> NilIP, before |-> ipAlloc]
    /\ allocRun' = -1
    /\ UNCHANGED <<outstanding, mgrVars, fileOp>>

AllocRelease(ip) ==
    /\ ipAlloc' = Release(ipAlloc, ip)
    /\ lastAlloc' = [op |-> "Release", ip |-> ip, end |-> NilIP, before |-> ipAlloc]
    /\ outstanding' = outstanding \ {ip}
    /\ allocRun' = -1
    /\ UNCHANGED <<mgrVars, fileOp>>

AllocSubtract(start, end) ==
    /\ ipAlloc' = Subtract(ipAlloc, SetBytes(start), SetBytes(end))
    /\ lastAlloc' = [op |-> "Subtract", ip |-> start, end |-> end, before |-> ipAlloc]
    /\ allocRun' = -1
    /\ UNCHANGED <<outstanding, mgrVars, fileOp>>

InitAlloc == NewDNSMasqMgr([hosts |-> <<>>, leases |-> <<>>], {"c1"})

NextAlloc ==
    \/ \E rnd \in Offsets : AllocAllocate(rnd)
    \/ \E ip \in AllocIPs : AllocReserve(ip)
    \/ \E ip \in AllocIPs : AllocRelease(ip)
    \/ \E start, end \in Octets : AllocSubtract(start, end)

SpecAlloc == InitAlloc /\ [][NextAlloc]_vars

(***************************************************************************)
(* The manager started on empty files and asked only for addresses it is   *)
(* to choose itself.                                                       *)
(***************************************************************************)
InitFresh == NewDNSMasqMgr([hosts |-> <<>>, leases |-> <<>>], {"c1"})

NextFresh ==
    \/ \E c \in DOMAIN call, h \in ReqHostnames, m \in ReqMacs, rnd \in Offsets :
          ReqBegin(c, h, m, "", rnd)
    \/ \E c \in DOMAIN call : ReqAddr(c)
    \/ \E c \in DOMAIN call : ReqPost(c)
    \/ Store
    \/ CloseBegin
    \/ CloseSend

SpecFresh == InitFresh /\ [][NextFresh]_vars

(***************************************************************************)
(* The same manager with its goroutines scheduled fairly: a call that has  *)
(* begun goes on when it can, and so does the loop.  Clients are free to   *)
(* stop calling.                                                           *)
(***************************************************************************)
LiveHostnames == {HostText[i] : i \in HostIds}
LiveMacs == {MacText[k] : k \in MacIds}

NextLive ==
    \/ \E c \in DOMAIN call, h \in LiveHostnames, m \in LiveMacs, rnd \in Offsets :
          ReqBegin(c, h, m, "", rnd)
    \/ \E c \in DOMAIN call : ReqAddr(c)
    \/ \E c \in DOMAIN call : ReqPost(c)
    \/ Store

SpecLive ==
    /\ InitFresh
    /\ [][NextLive]_vars
    /\ \A c \in {"c1"} : WF_vars(ReqAddr(c)) /\ WF_vars(ReqPost(c))
    /\ WF_vars(Store)

(***************************************************************************)
(* Properties.                                                             *)
(***************************************************************************)
\* C1: whenever RequestAddress succeeds and returns the triple (h, m, ip), a
\* LookupAddress by hostname h made on the state it leaves returns FULL with
\* hostname h, MAC m and IP ip.
C1_RequestThenLookupByHostname ==
    [][\A c \in DOMAIN call :
          ReqPost(c) =>
             lookupAddressByHostname(call[c].Hostname, nameMap', addrMap')
                = {Reply(call[c].Hostname, call[c].Macaddr, call[c].Ipaddr, "FULL", "nil")}
      ]_vars

\* C2: no caller is ever blocked posting its flush request, still holding the data
\* lock, while the loop is blocked acquiring that lock in Store.
C2_NoPostUnderLockWhileStoreWaits ==
    ~ \E c \in DOMAIN call : call[c].pc = "post" /\ lock = c /\ loopPc = "store"

\* C3: Close returns: it is never left waiting on the done channel by a loop that has
\* already returned, and so will acknowledge nothing.
C3_CloseNotLeftWaiting ==
    ~ (closePc = "wait" /\ loopPc = "returned")

\* C4: a lookup observes none or all of the effects of a RequestAddress: no read of a
\* lookup finds the hostname entry of a call that has inserted it and has neither
\* inserted its MAC binding nor rolled the hostname back.
C4_LookupNeverReadsBetweenInserts ==
    [][\A c \in DOMAIN call :
          (call[c].pc = "named" /\ lk' # lk) => lk'.reply.Hostname # call[c].Hostname
      ]_vars

\* C5: a RequestAddress for a hostname the name store already holds, with a MAC that
\* parses and that the hardware-address store does not hold, does not abort, and the
\* name store keeps exactly one entry for that hostname.
C5_SameHostnameOtherMacDoesNotAbort ==
    [][\A c \in DOMAIN call, h \in ReqHostnames, m \in ReqMacs, ip \in ReqIps \cup {""},
          rnd \in Offsets :
          ( /\ ReqBegin(c, h, m, ip, rnd)
            /\ h \in DOMAIN nameMap
            /\ ParseMAC(m).err = "nil"
            /\ HWString(ParseMAC(m).HW) \notin DOMAIN addrMap
            /\ ip # "" => ParseIP(ip) # NilIP
            /\ ip = "" => ipAlloc.remaining > 0 )
          => /\ call'[c].err = "nil"
             /\ call'[c].pc = "named"
             /\ h \in DOMAIN nameMap'
      ]_vars

\* C6: from empty stores, the first RangeSize RequestAddress calls with omitted IP and
\* pairwise distinct hostnames and MACs all succeed, and the addresses they return
\* are pairwise distinct and inside the range; the result of such a call is settled
\* when it reaches its deferred calls.
C6_FreshRequestsGetDistinctAddresses ==
    hist.fresh =>
       \A i \in 1..Len(hist.calls) :
          i <= RangeSize =>
             /\ hist.calls[i].err = "nil"
             /\ hist.calls[i].hasReply
             /\ Contains(ParseIP(hist.calls[i].Ipaddr))
             /\ \A j \in 1..(i - 1) :
                   ParseIP(hist.calls[j].Ipaddr) # ParseIP(hist.calls[i].Ipaddr)
    /\ \A c \in DOMAIN call :
          ( /\ call[c].pc = "post"
            /\ FreshCall(hist, call[c].Hostname, call[c].Macaddr, call[c].IpReq)
            /\ Len(hist.calls) < RangeSize )
          => /\ call[c].err = "nil"
             /\ Contains(ParseIP(call[c].Ipaddr))
             /\ \A j \in 1..Len(hist.calls) :
                   ParseIP(hist.calls[j].Ipaddr) # ParseIP(call[c].Ipaddr)

C6_Witness ==
    /\ hist.fresh
    /\ Len(hist.calls) = RangeSize
    /\ \A i \in 1..RangeSize : hist.calls[i].err = "nil"

\* C7: RequestAddress with omitted IP, called when the allocator has no remaining
\* address, fails with the AllocatorExhausted error kind and leaves both binding
\* stores unchanged.
C7_ExhaustedFailsWithAllocatorExhausted ==
    [][\A c \in DOMAIN call, h \in ReqHostnames \ {""}, m \in ReqMacs \ {""},
          rnd \in Offsets :
          (ReqBegin(c, h, m, "", rnd) /\ ipAlloc.remaining = 0)
          => /\ call'[c].pc = "done"
             /\ call'[c].err = "ErrAllocatorExhausted"
             /\ nameMap' = nameMap
             /\ addrMap' = addrMap
      ]_vars

C9_AllocateFindsAnyFreeOffset ==
    /\ [][\A rnd \in Offsets :
             AllocAllocate(rnd) => (lastAlloc'.ip = NilIP <=> ipAlloc.reserved = Offsets)
         ]_vars
    /\ [](allocRun \in 1..RangeSize => lastAlloc.ip # NilIP)
    /\ [](allocRun = RangeSize + 1 => lastAlloc.ip = NilIP)

C9_Witness ==
    /\ allocRun = RangeSize + 1
    /\ lastAlloc.op = "Allocate"
    /\ ipAlloc.reserved = Offsets

\* C10: in every allocator state, remaining = size - |reserved| and every reserved
\* offset lies in [0, size).
C10_RemainingCountsUnreserved ==
    /\ ipAlloc.remaining = RangeSize - Cardinality(ipAlloc.reserved)
    /\ ipAlloc.reserved \subseteq Offsets

C10_Witness ==
    /\ lastAlloc.op \in {"Reserve", "Release", "Subtract"}
    /\ ~Contains(lastAlloc.ip)
    /\ ipAlloc.reserved # {}
    /\ ipAlloc.remaining > 0

\* C11: a lookup by a hostname h that the name store holds with address ip returns,
\* without error, FULL with h, ip and the MAC of a binding for ip when the address
\* store holds one, and PARTIAL with h and ip and no MAC when it holds none; a lookup
\* by a hostname the name store does not hold returns an error with match NONE.
C11_LookupByHostname ==
    [][/\ \A h \in AllLookupVals("HOSTNAME") \ {""} :
             LookupBegin("HOSTNAME", h) =>
                IF h \in DOMAIN nameMap
                THEN /\ lk'.pc = "second"
                     /\ lk'.reply = Reply(h, "", IPString(nameMap[h].Address), "PARTIAL", "nil")
                ELSE /\ lk'.pc = "done"
                     /\ lk'.reply.err # "nil"
                     /\ lk'.reply.Match = "NONE"
       /\ (LookupEnd /\ lk.key = "HOSTNAME") =>
             LET macs == {HWString(addrMap[k].HW) :
                             k \in {x \in DOMAIN addrMap :
                                       IPString(addrMap[x].IP) = lk.reply.Ipaddr}}
             IN  /\ lk'.pc = "done"
                 /\ IF macs = {}
                    THEN lk'.reply = lk.reply
                    ELSE \E m \in macs :
                            lk'.reply = Reply(lk.reply.Hostname, m, lk.reply.Ipaddr, "FULL", "nil")
      ]_vars

C11_Witness ==
    /\ lk.pc = "done"
    /\ lk.key = "HOSTNAME"
    /\ lk.reply.Match = "FULL"
    /\ lk.reply.Macaddr # ""
    /\ lk.reply.Hostname = lk.val

\* C12: for every MAC that a previous successful RequestAddress was given, the first
\* read of a lookup by that MAC finds its binding and yields PARTIAL with the MAC and
\* its address, and the second read yields FULL with the hostname of a name entry
\* that has the address, or leaves the PARTIAL reply when there is none.
C12_LookupByMacaddr ==
    [][/\ \A m \in AllLookupVals("MACADDR") \ {""} :
             ( /\ LookupBegin("MACADDR", m)
               /\ \A c \in DOMAIN call : call[c].pc \in {"idle", "done"}
               /\ \E i \in 1..Len(journal) : journal[i].address.mac = m )
             => /\ lk'.pc = "second"
                /\ \E k \in DOMAIN addrMap :
                      /\ addrMap[k].HW = ParseMAC(m).HW
                      /\ lk'.reply = Reply("", HWString(addrMap[k].HW),
                                           IPString(addrMap[k].IP), "PARTIAL", "nil")
       /\ (LookupEnd /\ lk.key = "MACADDR") =>
             LET names == {nameMap[k].CanonicalHostname :
                              k \in {x \in DOMAIN nameMap :
                                        IPString(nameMap[x].Address) = lk.reply.Ipaddr}}
             IN  IF names = {}
                 THEN lk'.reply = lk.reply
                 ELSE \E h \in names :
                         lk'.reply = Reply(h, lk.reply.Macaddr, lk.reply.Ipaddr, "FULL", "nil")
      ]_vars

\* C13: a RequestAddress with an empty hostname or an empty MAC fails with the
\* malformed-request error without waiting for the lock, and changes neither binding
\* store, nor the allocator, nor the journal, and posts no flush request.
C13_EmptyHostnameOrMacIsRejected ==
    /\ [][\A c \in DOMAIN call, h \in CallHostnames, m \in CallMacs, ip \in CallIps,
             rnd \in Offsets :
             (ReqBegin(c, h, m, ip, rnd) /\ (h = "" \/ m = ""))
             => /\ call'[c].pc = "done"
                /\ call'[c].err = "ErrRequestData"
                /\ ~call'[c].hasReply
                /\ UNCHANGED <<nameMap, addrMap, ipAlloc, journal, lock, loopPc>>
         ]_vars
    /\ [](\A c \in DOMAIN call, h \in CallHostnames, m \in CallMacs, ip \in CallIps :
             (call[c].pc \in {"idle", "done"} /\ (h = "" \/ m = ""))
             => ENABLED ReqBegin(c, h, m, ip, 0))

C13_Witness ==
    \E c, d \in DOMAIN call :
       /\ call[c].pc = "done"
       /\ call[c].err = "ErrRequestData"
       /\ lock = d
       /\ call[d].pc = "post"
       /\ Len(journal) = 1

\* C14: a LookupAddress whose value for the selected key is empty fails with the
\* missing-key error and a reply whose match level is NONE, whatever the stores hold,
\* and makes no second read.
C14_EmptyKeyValueIsMissingKey ==
    [][\A key \in {"HOSTNAME", "MACADDR", "IPADDR"} :
          LookupBegin(key, "")
          => /\ lk'.pc = "done"
             /\ lk'.reply = Reply("", "", "", "NONE", "ErrMissingKey")
      ]_vars

C14_Witness ==
    /\ lk.pc = "done"
    /\ lk.val = ""
    /\ lk.key = "MACADDR"
    /\ lk.reply.err = "ErrMissingKey"
    /\ nameMap # EmptyMap
    /\ addrMap # EmptyMap

\* C15: every DeleteAddress that returns fails with the not-supported error and no
\* reply, whatever the request carries and whatever the stores hold, and leaves both
\* binding stores, the allocator and the journal unchanged and posts no flush request.
C15_DeleteAddressNotSupported ==
    [][\A c \in DOMAIN call, h \in CallHostnames :
          DeleteAddress(c, h)
          => /\ call'[c].pc = "done"
             /\ call'[c].err = "ErrNotSupported"
             /\ ~call'[c].hasReply
             /\ UNCHANGED <<nameMap, addrMap, ipAlloc, journal, loopPc, lock,
                            hostsFile, leasesFile>>
      ]_vars

C15_Witness ==
    \E c \in DOMAIN call :
       /\ call[c].pc = "done"
       /\ call[c].err = "ErrNotSupported"
       /\ HostText[1] \in DOMAIN nameMap
       /\ addrMap # EmptyMap
       /\ Len(journal) > 0

\* C16: a RequestAddress that carries a hostname, a MAC and a non-empty address that
\* does not parse returns a non-nil error, and changes neither binding store nor the
\* allocator.
C16_UnparsableAddressFails ==
    [][\A c \in DOMAIN call, h \in CallHostnames \ {""}, m \in CallMacs \ {""},
         ip \in CallIps \ {""}, rnd \in Offsets :
          (ReqBegin(c, h, m, ip, rnd) /\ ParseIP(ip) = NilIP)
          => /\ call'[c].pc = "done"
             /\ call'[c].err # "nil"
             /\ UNCHANGED <<nameMap, addrMap, ipAlloc>>
      ]_vars

\* C17: parsing the text rendered from a store built by successful Add calls gives a
\* store with exactly the entries of the rendered one, for the name store and for the
\* hardware-address store.
C17_ParseOfRenderIsSameStore ==
    /\ fileOp.op = "etcRoundTrip" => (fileOp.err = "nil" /\ fileOp.hosts = nameMap)
    /\ fileOp.op = "dhcpRoundTrip" => (fileOp.err = "nil" /\ fileOp.bindings = addrMap)

\* C18: for a leases text of canonical <mac>,<ip> lines with pairwise distinct MACs,
\* rendering the store parsed from the text gives the text again: the same lines in
\* the same order.
C18_RenderOfParseIsSameText ==
    (/\ fileOp.op = "dhcpDump"
     /\ \A i \in 1..Len(fileOp.text) :
           \E k \in MacIds, n \in RangeIPs : fileOp.text[i] = <<MacText[k], IPText[n]>>
     /\ \A i, j \in 1..Len(fileOp.text) :
           i # j => fileOp.text[i][1] # fileOp.text[j][1])
    => (fileOp.err = "nil" /\ fileOp.out = fileOp.text)

\* C19: parsing a leases text with a line that has other than two fields, a malformed
\* MAC or a malformed IP fails as a whole: the error is the one of the first such line
\* (bad binding format, bad hardware address, bad IP, in that order of checking) and
\* no binding of the lines before it is returned.
C19_LeasesParseFailsAsAWhole ==
    LET text   == fileOp.text
        bad(i) == \/ Len(text[i]) # 2
                  \/ ParseMAC(text[i][1]).err # "nil"
                  \/ ParseIP(text[i][2]) = NilIP
        bads   == {i \in 1..Len(text) : bad(i)}
        first  == CHOOSE i \in bads : \A j \in bads : i <= j
    IN  (fileOp.op = "dhcpParse" /\ bads # {})
        => /\ fileOp.bindings = EmptyMap
           /\ fileOp.err = (IF Len(text[first]) # 2 THEN "dhcphosts.ErrBadBindingFormat"
                            ELSE IF ParseMAC(text[first][1]).err # "nil"
                                 THEN "dhcphosts.ErrBadHWAddrFormat"
                                 ELSE "dhcphosts.ErrBadIPFormat")

C19_Witness ==
    /\ fileOp.op = "dhcpParse"
    /\ Len(fileOp.text) = 3
    /\ fileOp.text[1] = <<MacText[1], IPText[RangeStart]>>
    /\ fileOp.text[2] = <<MacText[1], "zz">>
    /\ fileOp.text[3] = <<MacText[1]>>
    /\ fileOp.err = "dhcphosts.ErrBadIPFormat"

C21_GetFindsWhatTheStoreHolds ==
    /\ fileOp.op = "getByHWAddr" =>
          LET p == ParseMAC(fileOp.arg)
          IN  IF p.err = "nil" /\ \E k \in DOMAIN addrMap : addrMap[k].HW = p.HW
              THEN fileOp.err = "nil" /\ fileOp.binding.HW = p.HW
              ELSE fileOp.err = "dhcphosts.ErrHWAddrNotFound"
    /\ (fileOp.op = "getByIP" /\ ParseIP(fileOp.arg) # NilIP) =>
          IF \E k \in DOMAIN addrMap : addrMap[k].IP = ParseIP(fileOp.arg)
          THEN fileOp.err = "nil" /\ fileOp.binding.IP = ParseIP(fileOp.arg)
          ELSE fileOp.err = "dhcphosts.ErrIPAddrNotFound"

\* C22: Reserve(ip) changes nothing when ip is outside the range or already reserved;
\* otherwise it reserves exactly the offset of ip and takes exactly one off remaining.
\* A second Reserve(ip) leaves the allocator as the first one left it.
C22_ReserveMarksOneOffsetOnce ==
    [][\A ip \in AllocIPs :
          AllocReserve(ip)
          => LET off == ip - RangeStart
             IN  /\ IF ip \notin RangeIPs \/ off \in ipAlloc.reserved
                    THEN ipAlloc' = ipAlloc
                    ELSE ipAlloc' = [reserved  |-> ipAlloc.reserved \cup {off},
                                     remaining |-> ipAlloc.remaining - 1]
                 /\ Reserve(ipAlloc', ip) = ipAlloc'
      ]_vars

C22_Witness ==
    /\ lastAlloc.op = "Reserve"
    /\ lastAlloc.ip \in RangeIPs
    /\ lastAlloc.before.reserved # {}
    /\ (lastAlloc.ip - RangeStart) \notin lastAlloc.before.reserved
    /\ (lastAlloc.ip - RangeStart) \in ipAlloc.reserved

C25_NameStoreRejectsCollisions ==
    [][/\ ( /\ fileOp'.op = "etcAdd"
            /\ fileOp'.arg # ""
            /\ fileOp'.host.Address # NilIP
            /\ \E k \in DOMAIN nameMap :
                  \/ nameMap[k].CanonicalHostname = fileOp'.host.CanonicalHostname
                  \/ nameMap[k].Address = fileOp'.host.Address
                  \/ \E ix \in 1..Len(fileOp'.host.Aliases) :
                        /\ ix <= Len(nameMap[k].Aliases)
                        /\ nameMap[k].Aliases[ix] = fileOp'.host.Aliases[ix] )
          => /\ fileOp'.err = "etchosts.ErrDuplicate"
             /\ fileOp'.present
             /\ nameMap' = nameMap
       /\ \A k1, k2 \in DOMAIN nameMap' :
             k1 # k2 => /\ nameMap'[k1].CanonicalHostname # nameMap'[k2].CanonicalHostname
                        /\ nameMap'[k1].Address # nameMap'[k2].Address
      ]_vars

\* an Add of a new hostname and a new address was rejected for its first alias alone
C25_Witness ==
    /\ fileOp.op = "etcAdd"
    /\ fileOp.err = "etchosts.ErrDuplicate"
    /\ fileOp.present
    /\ fileOp.host.Aliases = <<"alias1">>
    /\ Cardinality(DOMAIN nameMap) = 1
    /\ \A k \in DOMAIN nameMap :
          /\ nameMap[k].CanonicalHostname # fileOp.host.CanonicalHostname
          /\ nameMap[k].Address # fileOp.host.Address
          /\ nameMap[k].Aliases = <<"alias1", "alias2">>

\* C26: no two bindings of the hardware-address store share a MAC, and no two share
\* an IP.
C26_NoTwoBindingsShareMacOrIp ==
    \A k1, k2 \in DOMAIN addrMap :
       k1 # k2 => /\ addrMap[k1].HW # addrMap[k2].HW
                  /\ addrMap[k1].IP # addrMap[k2].IP

\* C27: a request whose hardware address is already in the address store, under a
\* hostname that is new, is not aborted: it succeeds with match PARTIAL, and a request
\* that collides with nothing succeeds with match NONE.
C27_DuplicateMacRaisesMatchOnly ==
    [][\A c \in DOMAIN call :
         ( /\ ReqAddr(c)
           /\ ParseMAC(call[c].Macaddr).err = "nil"
           /\ ParseIP(call[c].Ipaddr) # NilIP )
         => /\ call'[c].pc = "post"
            /\ call'[c].hasReply
            /\ call'[c].Match =
                  IF \E k \in DOMAIN addrMap : addrMap[k].HW = ParseMAC(call[c].Macaddr).HW
                  THEN "PARTIAL" ELSE "NONE"
      ]_vars

\* C28: when the insert of the hardware address fails, the request fails and the name
\* store is the one the call found.
C28_FailedInsertRestoresNameStore ==
    [][\A c \in DOMAIN call :
         ( /\ ReqAddr(c)
           /\ dhcpConfAdd(addrMap, call[c].Macaddr, call[c].Ipaddr).err # "nil" )
         => /\ call'[c].pc = "done"
            /\ call'[c].err # "nil"
            /\ ~call'[c].hasReply
            /\ nameMap' = call[c].nameBefore
            /\ call[c].Hostname \in DOMAIN nameMap
            /\ call[c].Hostname \notin DOMAIN call[c].nameBefore
      ]_vars

\* a request with a hardware address that does not parse has failed, and the name
\* store holds the entry it held before and nothing else
C28_Witness ==
    \E c \in DOMAIN call :
       /\ call[c].pc = "done"
       /\ call[c].err = "net.AddrError"
       /\ DOMAIN nameMap = {HostText[1]}
       /\ nameMap[HostText[1]].Address = RangeStart

\* C29: a RequestAddress call posts its flush request only after it has released the
\* data lock: no caller is at its send on the flush channel while it holds the lock.
C29_NoPostWhileHoldingLock ==
    \A c \in DOMAIN call : call[c].pc = "post" => lock # c

\* C30: once the loop has stopped, no RequestAddress caller is left posting a flush
\* request.
C30_NoPostLeftWhenLoopStopped ==
    loopPc = "returned" => \A c \in DOMAIN call : call[c].pc # "post"

\* C31: with the goroutines scheduled fairly, after a RequestAddress has returned its
\* reply a Store eventually writes files that hold the hostname entry and the MAC
\* binding of that request.
C31_SuccessfulRequestIsStored ==
    \A h \in LiveHostnames, m \in LiveMacs :
       (\E c \in DOMAIN call :
           /\ call[c].pc = "done" /\ call[c].hasReply
           /\ call[c].Hostname = h /\ call[c].Macaddr = m)
       ~> ( /\ \E line \in hostsFile : line[2] = h
            /\ \E line \in leasesFile : line[1] = m )

\* C32: a RequestAddress that succeeds appends one "add" record with its hostname, MAC
\* and IP, and the record is the last of the journal when the call posts its flush
\* request; no other step changes the journal, so a failed call appends nothing and no
\* record is changed or removed.
C32_JournalGetsOneRecordPerSuccess ==
    [][/\ \A c \in DOMAIN call :
             (call[c].pc = "named" /\ call'[c].pc = "post")
             => journal' = Append(journal,
                                  [action |-> "add",
                                   address |-> [hostname |-> call'[c].Hostname,
                                                mac |-> call'[c].Macaddr,
                                                ip |-> call'[c].Ipaddr]])
       /\ (~ \E c \in DOMAIN call : call[c].pc = "named" /\ call'[c].pc = "post")
             => journal' = journal
       /\ \A c \in DOMAIN call :
             call'[c].pc = "post"
             => /\ Len(journal') > 0
                /\ journal'[Len(journal')].address.hostname = call'[c].Hostname
                /\ journal'[Len(journal')].address.ip = call'[c].Ipaddr
      ]_vars

\* one request has succeeded and a later one has failed at the insert of its hardware
\* address: the journal holds the record of the first and nothing else
C32_Witness ==
    \E c \in DOMAIN call :
       /\ call[c].pc = "done"
       /\ call[c].err = "net.AddrError"
       /\ Len(journal) = 1
       /\ journal[1].action = "add"
       /\ journal[1].address.hostname \in DOMAIN nameMap
       /\ ParseIP(journal[1].address.ip) = nameMap[journal[1].address.hostname].Address

C34_StoredAddressesAreReserved ==
    /\ \A h \in DOMAIN nameMap :
          Contains(nameMap[h].Address)
          => (SetBytes(nameMap[h].Address) - RangeStart) \in ipAlloc.reserved
    /\ \A k \in DOMAIN addrMap :
          Contains(addrMap[k].IP)
          => (SetBytes(addrMap[k].IP) - RangeStart) \in ipAlloc.reserved

\* C35: every entry of a name store, built by Add or by Parse, has a canonical hostname
\* that is not empty and an address that is not nil.
C35_NameEntriesAreWellFormed ==
    /\ \A h \in DOMAIN nameMap :
          nameMap[h].CanonicalHostname # "" /\ nameMap[h].Address # NilIP
    /\ \A h \in DOMAIN fileOp.hosts :
          fileOp.hosts[h].CanonicalHostname # "" /\ fileOp.hosts[h].Address # NilIP

\* C36: within a call the match level never goes down: not between the steps of a
\* RequestAddress in progress, not between the two reads of a LookupAddress, and not
\* in handleDuplicate, which leaves FULL at FULL.
C36_MatchLevelNeverRegresses ==
    [][/\ \A c \in DOMAIN call :
             (call[c].pc \in {"named", "post"} /\ call'[c].pc \in {"named", "post"})
             => MatchRank(call'[c].Match) >= MatchRank(call[c].Match)
       /\ (lk.pc = "second" /\ lk'.pc = "done")
             => MatchRank(lk'.reply.Match) >= MatchRank(lk.reply.Match)
       /\ (lk.pc \in {"idle", "done"} /\ lk'.pc = "second")
             => lk'.reply.Match = "PARTIAL"
       /\ \A i \in 1..3, key \in {"HOSTNAME", "MACADDR"} :
             LET ar == handleDuplicate([Match |-> MatchLevels[i], Key |-> ""], key)
             IN  /\ MatchRank(ar.Match) >= i
                 /\ i = 3 => ar.Match = "FULL"
      ]_vars

\* a lookup whose first read found an entry and whose second read found nothing has
\* returned PARTIAL, while a request is between its two inserts
C36_Witness ==
    /\ lk.pc = "done"
    /\ lk.reply.Match = "PARTIAL"
    /\ \E c \in DOMAIN call : call[c].pc = "named"

\* C37: a RequestAddress that returns an error leaves the allocator as it was before
\* the call, whether it fails before its inserts, at the hostname insert, or at the
\* insert of the hardware address.
C37_FailedRequestLeavesAllocator ==
    [][\A c \in DOMAIN call :
         /\ ( /\ call[c].pc \in {"idle", "done"}
              /\ call'[c].pc = "done"
              /\ call' # call
              /\ call'[c].err \notin {"nil", "ErrNotSupported"} )
            => ipAlloc' = ipAlloc
         /\ (call[c].pc = "named" /\ call'[c].pc = "done")
            => ipAlloc' = call[c].allocBefore
      ]_vars

\* C38: lookups by the three keys agree: when a lookup by MAC returns FULL with a
\* hostname, that MAC and an IP, the lookup by that hostname and the lookup by that IP
\* return FULL with the same triple.
C38_LookupsByEachKeyAgree ==
    \A k \in MacIds :
       \A r \in LookupAddress("MACADDR", MacText[k], nameMap, addrMap) :
          r.Match = "FULL"
          => /\ LookupAddress("HOSTNAME", r.Hostname, nameMap, addrMap) = {r}
             /\ LookupAddress("IPADDR", r.Ipaddr, nameMap, addrMap) = {r}

\* C39: a manager created read-only never changes its state: no step changes a binding
\* store, the allocator or a file.
C39_ReadOnlyManagerChangesNothing ==
    [][readOnly => /\ nameMap' = nameMap
                   /\ addrMap' = addrMap
                   /\ ipAlloc' = ipAlloc
                   /\ hostsFile' = hostsFile
                   /\ leasesFile' = leasesFile
      ]_vars

====
